---- MODULE Spec2Model ----
(***************************************************************************)
(* GeminiAPIManager (src/api_manager.py): a pool of API keys with circular *)
(* rotation, per-key failure counters, quarantine of keys that failed      *)
(* max_retries times, a full reset when every key is quarantined, and      *)
(* generate_content_with_fallback, the bounded retry loop on top of it.    *)
(* On top of the manager, the four agents of src/agents_enhanced.py and    *)
(* process_content_with_enhanced_agents, which runs them in sequence.      *)
(***************************************************************************)
EXTENDS Integers, Sequences, FiniteSets, TLC

\* ------------------------------------------------------------------ bounds
MaxKeys == 3        \* longest configured key list
MaxCount == 4       \* direct mark_key_failed calls stop at this counter value
MaxAttempts == 2    \* largest explicit max_attempts argument
MaxDoc == 2         \* most segments of a raw text

\* ------------------------------------------------------- program constants
max_retries == 3
ai_bizus_len == 1000        \* len(processed_content) > 1000
ai_structured_len == 500    \* len(main_content) > 500

\* ------------------------------------------------------------------ values
None == "None"                       \* Python's None
Names == <<"k1", "k2", "k3", "k4", "k5">>
KeyUniverse == {""} \cup {Names[i] : i \in 1..MaxKeys}
Texts == {"", "txt"}                 \* response.text of a successful request
Stages == {"configure", "model", "generate_content", "text"}

\* `not x` for an Optional[str]
Falsy(x) == x = None \/ x = ""

\* dict helpers
EmptyDict == [k \in {} |-> 0]
Get(d, k, default) == IF k \in DOMAIN d THEN d[k] ELSE default
Put(d, k, v) == [x \in (DOMAIN d) \cup {k} |-> IF x = k THEN v ELSE d[x]]

\* ---------------------------------------------------------------- texts
\* A text is a sequence of segments. A segment stands for a stretch of text
\* of one kind; the functions below read the kinds the way the code's string
\* tests and regular expressions read the characters.
Paragraph == "p"                     \* plain text, ParaLen characters
LongParagraph == "P"                 \* plain text, LongLen characters
Blank == " "                         \* whitespace
Formula == "$"                       \* text with a '$' in it
Boilerplate == "Sumário"             \* a section matched by patterns_to_remove
BoilerplateKept == "Sumário Gabarito"     \* such a section holding 'Gabarito'
Tip == "Bizu: a"                     \* a line matched by bizu_pattern
Question == "Questão"                \* a block matched by question_pattern
QuestionPlain == "Questão sem alternativas"   \* such a block with no 'Alternativa X)'
Questions == {Question, QuestionPlain}
TagLine == "tags:"                   \* a line holding 'tags:'
Metadata == "---created"             \* the header block of line 280
TagBlock == "tags: [matemática]"     \* the block appended at line 276, after a newline
Note == "> [!NOTE]"                  \* the notice appended at line 229
Title == "# Conteúdo Estruturado"
Revised == "r"                       \* text written by the remote model
NotText == <<None>>                  \* raw_content that is no str

ParaLen == 600
LongLen == 1200
ShortLen == 1
SegLen(s) == CASE s = Paragraph -> ParaLen
               [] s = LongParagraph -> LongLen
               [] OTHER -> ShortLen

\* len(t)
RECURSIVE TextLen(_)
TextLen(t) == IF t = <<>> THEN 0 ELSE SegLen(Head(t)) + TextLen(Tail(t))

Contains(t, s) == \E i \in 1..Len(t) : t[i] = s
Without(t, S) == SelectSeq(t, LAMBDA s : s \notin S)
Count(t, s) == Len(SelectSeq(t, LAMBDA x : x = s))

\* t.strip()
Strip(t) ==
    LET inked == {i \in 1..Len(t) : t[i] # Blank}
    IN  IF inked = {} THEN <<>>
        ELSE SubSeq(t, CHOOSE i \in inked : \A j \in inked : i <= j,
                       CHOOSE i \in inked : \A j \in inked : i >= j)

\* "tags:" in t.lower()
HasTags(t) == \E i \in 1..Len(t) : t[i] \in {TagLine, Metadata, TagBlock}

\* t.startswith("---")
StartsWithDashes(t) == t # <<>> /\ t[1] = Metadata

\* '$' in t or 'fórmula' in t.lower() or 'equação' in t.lower()
HasMath(t) == Contains(t, Formula)

\* The raw texts handed to the agents.
RawSegments == {Paragraph, LongParagraph, Blank, Formula, Boilerplate, BoilerplateKept, Tip,
                Question, QuestionPlain, TagLine}
RawTexts == UNION {[1..n -> RawSegments] : n \in 0..MaxDoc}

VARIABLES
    api_keys,            \* self.api_keys
    current_key_index,   \* self.current_key_index
    failed_keys,         \* self.failed_keys
    retry_count,         \* self.retry_count
    pc,                  \* where the caller is: idle, inside generate, holding a result
    attempt,             \* loop variable of generate_content_with_fallback
    max_attempts,        \* its max_attempts after defaulting
    api_key,             \* its local api_key
    result,              \* what the last finished call returned or raised
    status,              \* the dict the last get_status call returned
    call,                \* history of the generate call in progress (observer)
    hist,                \* the latest get_next_key selections (observer)
    thread,              \* the frames of callers running as threads on one manager
    marks,               \* stores into retry_count since it was last cleared (observer)
    pipe                 \* the agents: the stage that runs, its records, its outcome

vars == <<api_keys, current_key_index, failed_keys, retry_count,
          pc, attempt, max_attempts, api_key, result, status, call, hist,
          thread, marks, pipe>>
frame == <<attempt, max_attempts, api_key>>
\* what the single caller has, and what belongs to other kinds of callers
caller == <<pc, attempt, max_attempts, api_key, result, status, call, hist, pipe>>
aside == <<thread, marks, pipe>>

\* ------------------------------------------------------------ configuration
\* The key lists the constructor accepts: non-empty lists of strings. Keys are
\* opaque apart from emptiness, so the non-empty ones are named in order of
\* first appearance; a list holds at most one irregular entry (an empty
\* string, or the repetition of an earlier key).
FirstUse(p) ==
    \A i \in 1..Len(p) : \A j \in 2..MaxKeys :
        p[i] = Names[j] => \E m \in 1..(i - 1) : p[m] = Names[j - 1]
Irregular(p) ==
    {i \in 1..Len(p) : p[i] = "" \/ \E m \in 1..(i - 1) : p[m] = p[i]}
KeyLists ==
    UNION {{p \in [1..n -> KeyUniverse] :
                FirstUse(p) /\ Cardinality(Irregular(p)) <= 1} : n \in 1..MaxKeys}

NoResult == [op |-> "none", kind |-> "return", val |-> None]
NoStatus == [total_keys |-> 0, failed_keys |-> 0, available_keys |-> 0,
             current_key_index |-> 0, retry_counts |-> EmptyDict, shared |-> FALSE]
NoCall == [before |-> EmptyDict, failed0 |-> {}, index0 |-> 0, nexts |-> 0,
           remotes |-> 0, fails |-> 0, marks |-> 0, oks |-> 0, text |-> None,
           bad |-> {}]

\* The callers that share one manager when it is used from threads, and the
\* frame of one that is not inside generate_content_with_fallback.
Threads == {1, 2}
IdleThread == [pc |-> "idle", attempt |-> 0, max_attempts |-> 0, api_key |-> None,
               available_keys |-> <<>>, count |-> 0, result |-> "none"]

\* No agent has been called.
NoPipe == [mode |-> "none", time |-> FALSE, stage |-> "none", at |-> "",
           raw_content |-> <<>>, processed_content |-> <<>>, bizus |-> <<>>,
           extracted_data |-> [main_content |-> <<>>, bizus |-> <<>>,
                               questions |-> <<>>],
           structured_content |-> <<>>, q |-> 0,
           structured_data |-> [structured_content |-> <<>>, has_math |-> FALSE],
           latex_data |-> [content |-> <<>>, latex_processed |-> FALSE],
           final_note |-> <<>>, error |-> "none", runs |-> 0,
           started |-> <<>>, done |-> <<>>, asks |-> <<>>,
           remote_ok |-> FALSE, remote_failed |-> FALSE]

\* __init__ (the ValueError on an empty list leaves no object behind)
ManagerInit ==
    /\ api_keys \in KeyLists
    /\ current_key_index = 0
    /\ failed_keys = {}
    /\ retry_count = EmptyDict
    /\ pc = "idle"
    /\ attempt = 0
    /\ max_attempts = 0
    /\ api_key = None
    /\ result = NoResult
    /\ status = NoStatus
    /\ call = NoCall
    /\ hist = <<>>
    /\ thread = [t \in Threads |-> IdleThread]
    /\ marks = EmptyDict

\* A manager on its own: no agent is at work.
Init == ManagerInit /\ pipe = NoPipe

\* ------------------------------------------------------------ get_next_key
\* available_keys = [key for key in self.api_keys if key not in self.failed_keys]
AvailableKeys(keys, failed) == SelectSeq(keys, LAMBDA k : k \notin failed)

\* Faulty variant: lines 37-41 left out, no reset when every key is quarantined.
get_next_key_NoReset ==
    LET available_keys == AvailableKeys(api_keys, failed_keys)
    IN  IF available_keys = <<>>
        THEN [key |-> None, pos |-> 0, index |-> current_key_index,
              failed |-> failed_keys, retry |-> retry_count, reset |-> FALSE]
        ELSE [key |-> available_keys[(current_key_index % Len(available_keys)) + 1],
              pos |-> current_key_index % Len(available_keys),
              index |-> (current_key_index + 1) % Len(available_keys),
              failed |-> failed_keys, retry |-> retry_count, reset |-> FALSE]

\* Faulty variant: line 48 left out, the cursor does not advance.
get_next_key_NoAdvance ==
    LET listed == AvailableKeys(api_keys, failed_keys)
        reset == listed = <<>>
        available_keys == IF reset THEN api_keys ELSE listed
    IN  [key |-> available_keys[(current_key_index % Len(available_keys)) + 1],
         pos |-> current_key_index % Len(available_keys),
         index |-> current_key_index,
         failed |-> IF reset THEN {} ELSE failed_keys,
         retry |-> IF reset THEN EmptyDict ELSE retry_count,
         reset |-> reset]

\* Faulty variant: line 48 adds 2, the cursor advances by two entries.
get_next_key_SkipOne ==
    LET listed == AvailableKeys(api_keys, failed_keys)
        reset == listed = <<>>
        available_keys == IF reset THEN api_keys ELSE listed
    IN  [key |-> available_keys[(current_key_index % Len(available_keys)) + 1],
         pos |-> current_key_index % Len(available_keys),
         index |-> (current_key_index + 2) % Len(available_keys),
         failed |-> IF reset THEN {} ELSE failed_keys,
         retry |-> IF reset THEN EmptyDict ELSE retry_count,
         reset |-> reset]

\* The whole of get_next_key: the key it returns and the fields it leaves.
\* pos is the index it reads in the list it selects from, reset says whether
\* it cleared failed_keys and retry_count.
get_next_key ==
    LET listed == AvailableKeys(api_keys, failed_keys)
        reset == listed = <<>>
        available_keys == IF reset THEN api_keys ELSE listed
        failed == IF reset THEN {} ELSE failed_keys
        retry == IF reset THEN EmptyDict ELSE retry_count
    IN  IF available_keys = <<>>
        THEN [key |-> None, pos |-> 0, index |-> current_key_index,
              failed |-> failed, retry |-> retry, reset |-> reset]
        ELSE [key |-> available_keys[(current_key_index % Len(available_keys)) + 1],
              pos |-> current_key_index % Len(available_keys),
              index |-> (current_key_index + 1) % Len(available_keys),
              failed |-> failed, retry |-> retry, reset |-> reset]

\* ---------------------------------------------------------- mark_key_failed
\* Faulty variant: > for >= at line 61, quarantine one failure late.
mark_key_failed_Late(k) ==
    LET retry == Put(retry_count, k, Get(retry_count, k, 0) + 1)
    IN  [retry |-> retry,
         failed |-> IF retry[k] > max_retries THEN failed_keys \cup {k}
                    ELSE failed_keys]

\* Faulty variant: the counter compared before it is incremented, quarantine
\* one failure early.
mark_key_failed_Early(k) ==
    LET retry == Put(retry_count, k, Get(retry_count, k, 0) + 1)
    IN  [retry |-> retry,
         failed |-> IF retry[k] + 1 >= max_retries THEN failed_keys \cup {k}
                    ELSE failed_keys]

mark_key_failed(k) ==
    LET retry == Put(retry_count, k, Get(retry_count, k, 0) + 1)
    IN  [retry |-> retry,
         failed |-> IF retry[k] >= max_retries THEN failed_keys \cup {k}
                    ELSE failed_keys]

\* --------------------------------------------------------------- get_status
\* Faulty variant: line 164 without .copy(), the pool's own dict handed out.
get_status_NoCopy ==
    [total_keys |-> Len(api_keys),
     failed_keys |-> Cardinality(failed_keys),
     available_keys |-> Len(api_keys) - Cardinality(failed_keys),
     current_key_index |-> current_key_index,
     retry_counts |-> retry_count,
     shared |-> TRUE]

get_status ==
    [total_keys |-> Len(api_keys),
     failed_keys |-> Cardinality(failed_keys),
     available_keys |-> Len(api_keys) - Cardinality(failed_keys),
     current_key_index |-> current_key_index,
     retry_counts |-> retry_count,
     shared |-> FALSE]     \* retry_count.copy(): a dict of its own

\* ------------------------------------------------------------- observers
HistLen == MaxKeys + 1
Record(h, r) ==
    LET e == [key |-> r.key, pos |-> r.pos, failed |-> failed_keys]
        all == Append(h, e)
    IN  IF Len(all) > HistLen THEN Tail(all) ELSE all

\* ------------------------------------------------ direct calls on the pool
KeySet == {api_keys[i] : i \in 1..Len(api_keys)}
Distinct(keys) == \A i, j \in 1..Len(keys) : keys[i] = keys[j] => i = j

CallGetNextKey(track) ==
    /\ pc = "idle"
    /\ LET r == get_next_key
       IN  /\ current_key_index' = r.index
           /\ failed_keys' = r.failed
           /\ retry_count' = r.retry
           /\ result' = [op |-> "get_next_key", kind |-> "return", val |-> r.key]
           /\ hist' = IF track THEN Record(hist, r) ELSE hist
    /\ pc' = "done"
    /\ UNCHANGED <<api_keys, frame, status, call>>
    /\ UNCHANGED aside

CallMarkKeyFailed(k) ==
    /\ pc = "idle"
    /\ k \in KeySet
    /\ Get(retry_count, k, 0) < MaxCount
    /\ LET m == mark_key_failed(k)
       IN  /\ retry_count' = m.retry
           /\ failed_keys' = m.failed
    /\ UNCHANGED <<api_keys, current_key_index, pc, frame, result, status, call, hist>>
    /\ UNCHANGED aside

CallGetStatus ==
    /\ pc = "idle"
    /\ status' = get_status
    /\ result' = [op |-> "get_status", kind |-> "return", val |-> None]
    /\ pc' = "done"
    /\ UNCHANGED <<api_keys, current_key_index, failed_keys, retry_count,
                   frame, call, hist>>
    /\ UNCHANGED aside

\* The caller writes into the mapping get_status handed out:
\* status['retry_counts'][k] = 0
CallerMutates(k) ==
    /\ pc = "done"
    /\ result.op = "get_status"
    /\ k \in DOMAIN status.retry_counts
    /\ status.retry_counts[k] # 0
    /\ status' = [status EXCEPT !.retry_counts = Put(@, k, 0)]
    /\ retry_count' = IF status.shared THEN Put(retry_count, k, 0) ELSE retry_count
    /\ UNCHANGED <<api_keys, current_key_index, failed_keys, pc, frame, result,
                   call, hist>>
    /\ UNCHANGED aside

\* The caller drops what the finished call returned and goes on.
Continue ==
    /\ pc = "done"
    /\ pc' = "idle"
    /\ attempt' = 0
    /\ max_attempts' = 0
    /\ api_key' = None
    /\ result' = NoResult
    /\ status' = NoStatus
    /\ call' = NoCall
    /\ UNCHANGED <<api_keys, current_key_index, failed_keys, retry_count, hist>>
    /\ UNCHANGED aside

\* ------------------------------------------ generate_content_with_fallback
Begin(n) ==
    /\ max_attempts' = n
    /\ attempt' = 0
    /\ pc' = "next"
    /\ call' = [NoCall EXCEPT !.before = retry_count, !.failed0 = failed_keys,
                              !.index0 = current_key_index]
    /\ UNCHANGED <<api_keys, current_key_index, failed_keys, retry_count,
                   api_key, result, status, hist>>
    /\ UNCHANGED aside

\* max_attempts is None: max_attempts = len(self.api_keys)
GenerateDefault ==
    /\ pc = "idle"
    /\ Begin(Len(api_keys))

\* max_attempts given by the caller
Generate(ma) ==
    /\ pc = "idle"
    /\ Begin(ma)

\* Faulty variant: a get_next_key call that resets the pool also restarts the
\* count of attempts.
GenNext_ResetRestarts(track) ==
    /\ pc = "next"
    /\ attempt < max_attempts
    /\ LET r == get_next_key
       IN  /\ ~Falsy(r.key)
           /\ current_key_index' = r.index
           /\ failed_keys' = r.failed
           /\ retry_count' = r.retry
           /\ api_key' = r.key
           /\ hist' = IF track THEN Record(hist, r) ELSE hist
           /\ attempt' = IF r.reset THEN 0 ELSE attempt
    /\ pc' = "try"
    /\ call' = [call EXCEPT !.nexts = @ + 1]
    /\ UNCHANGED <<api_keys, max_attempts, result, status>>
    /\ UNCHANGED aside

\* for attempt in range(max_attempts): api_key = self.get_next_key()
GenNext(track) ==
    /\ pc = "next"
    /\ attempt < max_attempts
    /\ LET r == get_next_key
       IN  /\ ~Falsy(r.key)
           /\ current_key_index' = r.index
           /\ failed_keys' = r.failed
           /\ retry_count' = r.retry
           /\ api_key' = r.key
           /\ hist' = IF track THEN Record(hist, r) ELSE hist
    /\ pc' = "try"
    /\ call' = [call EXCEPT !.nexts = @ + 1]
    /\ UNCHANGED <<api_keys, attempt, max_attempts, result, status>>
    /\ UNCHANGED aside

\* if not api_key: break; then return None
GenNoKey(track) ==
    /\ pc = "next"
    /\ attempt < max_attempts
    /\ LET r == get_next_key
       IN  /\ Falsy(r.key)
           /\ current_key_index' = r.index
           /\ failed_keys' = r.failed
           /\ retry_count' = r.retry
           /\ api_key' = r.key
           /\ hist' = IF track THEN Record(hist, r) ELSE hist
    /\ pc' = "done"
    /\ result' = [op |-> "generate", kind |-> "return", val |-> None]
    /\ call' = [call EXCEPT !.nexts = @ + 1]
    /\ UNCHANGED <<api_keys, attempt, max_attempts, status>>
    /\ UNCHANGED aside

\* the loop ran out: return None
GenExhausted ==
    /\ pc = "next"
    /\ attempt >= max_attempts
    /\ pc' = "done"
    /\ result' = [op |-> "generate", kind |-> "return", val |-> None]
    /\ UNCHANGED <<api_keys, current_key_index, failed_keys, retry_count,
                   frame, status, call, hist>>
    /\ UNCHANGED aside

\* Faulty variant: the successful attempt does not return, the loop goes on.
GenSuccess_NoReturn(text) ==
    /\ pc = "try"
    /\ pc' = "next"
    /\ attempt' = attempt + 1
    /\ call' = [call EXCEPT !.remotes = @ + 1, !.oks = @ + 1, !.text = text]
    /\ UNCHANGED <<api_keys, current_key_index, failed_keys, retry_count,
                   max_attempts, api_key, result, status, hist>>
    /\ UNCHANGED aside

\* Faulty variant: a successful attempt clears the counter and the quarantine
\* of the key it used.
GenSuccess_ClearsKey(text) ==
    /\ pc = "try"
    /\ pc' = "done"
    /\ result' = [op |-> "generate", kind |-> "return", val |-> text]
    /\ call' = [call EXCEPT !.remotes = @ + 1, !.oks = @ + 1, !.text = text]
    /\ retry_count' = [k \in DOMAIN retry_count \ {api_key} |-> retry_count[k]]
    /\ failed_keys' = failed_keys \ {api_key}
    /\ UNCHANGED <<api_keys, current_key_index, frame, status, hist>>
    /\ UNCHANGED aside

\* configure, GenerativeModel, generate_content and response.text all pass:
\* return response.text
GenSuccess(text) ==
    /\ pc = "try"
    /\ pc' = "done"
    /\ result' = [op |-> "generate", kind |-> "return", val |-> text]
    /\ call' = [call EXCEPT !.remotes = @ + 1, !.oks = @ + 1, !.text = text]
    /\ UNCHANGED <<api_keys, current_key_index, failed_keys, retry_count,
                   frame, status, hist>>
    /\ UNCHANGED aside

\* The statements of the try block, lines 134-139; an Exception raised by any
\* of them reaches the except clause.
\* Faulty variant: response.text read after the try block.
Caught_TextOutside(stage) == stage \in {"configure", "model", "generate_content"}

Caught(stage) == stage \in {"configure", "model", "generate_content", "text"}

\* One of the statements of the attempt raises an Exception.
GenFailure(stage) ==
    /\ pc = "try"
    /\ IF Caught(stage)
       THEN LET m == mark_key_failed(api_key)
            IN  /\ retry_count' = m.retry
                /\ failed_keys' = m.failed
                /\ attempt' = attempt + 1
                /\ pc' = "next"
                /\ call' = [call EXCEPT !.remotes = @ + 1, !.fails = @ + 1,
                                        !.marks = @ + 1, !.bad = @ \cup {api_key}]
                /\ UNCHANGED result
       ELSE /\ pc' = "done"
            /\ result' = [op |-> "generate", kind |-> "raise", val |-> stage]
            /\ call' = [call EXCEPT !.remotes = @ + 1, !.fails = @ + 1,
                                    !.bad = @ \cup {api_key}]
            /\ UNCHANGED <<retry_count, failed_keys, attempt>>
    /\ UNCHANGED <<api_keys, current_key_index, max_attempts, api_key, status, hist>>
    /\ UNCHANGED aside

\* ------------------------------------------------------------ specifications
Next ==
    \/ CallGetNextKey(FALSE)
    \/ \E k \in KeyUniverse : CallMarkKeyFailed(k)
    \/ CallGetStatus
    \/ \E k \in KeyUniverse : CallerMutates(k)
    \/ Continue
    \/ GenerateDefault
    \/ \E ma \in 0..MaxAttempts : Generate(ma)
    \/ GenNext(FALSE)
    \/ GenNoKey(FALSE)
    \/ GenExhausted
    \/ \E text \in Texts : GenSuccess(text)
    \/ \E stage \in Stages : GenFailure(stage)

Spec == Init /\ [][Next]_vars

\* A pool on which no attempt fails and mark_key_failed is never called;
\* every selection is recorded in hist.
NextRotation ==
    \/ CallGetNextKey(TRUE)
    \/ CallGetStatus
    \/ Continue
    \/ GenerateDefault
    \/ \E ma \in 0..MaxAttempts : Generate(ma)
    \/ GenNext(TRUE)
    \/ GenNoKey(TRUE)
    \/ GenExhausted
    \/ \E text \in Texts : GenSuccess(text)

SpecRotation == Init /\ [][NextRotation]_vars

\* Selections and failures, every selection recorded in hist.
NextFair ==
    \/ CallGetNextKey(TRUE)
    \/ \E k \in KeyUniverse : CallMarkKeyFailed(k)
    \/ Continue
    \/ GenerateDefault
    \/ GenNext(TRUE)
    \/ GenNoKey(TRUE)
    \/ GenExhausted
    \/ \E text \in Texts : GenSuccess(text)
    \/ \E stage \in Stages : GenFailure(stage)

SpecFair == Init /\ [][NextFair]_vars

\* ------------------------------------------------- one manager, two threads
\* generate_content_with_fallback running in several threads on one manager.
\* The manager takes no lock, so the statements of get_next_key and
\* mark_key_failed of different threads interleave; a step is one statement,
\* and the assignment of line 59 is two steps, the evaluation of its right
\* side and the store.
Set(t, f) == thread' = [thread EXCEPT ![t] = f]

\* max_attempts = len(self.api_keys); the loop starts
ThreadGenerate(t) ==
    /\ thread[t].pc = "idle"
    /\ Set(t, [IdleThread EXCEPT !.pc = "l35", !.max_attempts = Len(api_keys)])
    /\ UNCHANGED <<api_keys, current_key_index, failed_keys, retry_count, marks, caller>>

\* line 35: available_keys = [key for key in self.api_keys if ...]
ThreadAvailable(t) ==
    /\ thread[t].pc = "l35"
    /\ Set(t, [thread[t] EXCEPT !.pc = "l37",
                  !.available_keys = AvailableKeys(api_keys, failed_keys)])
    /\ UNCHANGED <<api_keys, current_key_index, failed_keys, retry_count, marks, caller>>

\* lines 37-41: if not available_keys: clear both containers
ThreadReset(t) ==
    /\ thread[t].pc = "l37"
    /\ IF thread[t].available_keys = <<>>
       THEN /\ failed_keys' = {}
            /\ retry_count' = EmptyDict
            /\ marks' = EmptyDict
            /\ Set(t, [thread[t] EXCEPT !.pc = "l47", !.available_keys = api_keys])
       ELSE /\ Set(t, [thread[t] EXCEPT !.pc = "l47"])
            /\ UNCHANGED <<failed_keys, retry_count, marks>>
    /\ UNCHANGED <<api_keys, current_key_index, caller>>

\* line 47: key = available_keys[self.current_key_index % len(available_keys)]
ThreadSelect(t) ==
    /\ thread[t].pc = "l47"
    /\ LET a == thread[t].available_keys
       IN  Set(t, [thread[t] EXCEPT !.pc = "l48",
                      !.api_key = a[(current_key_index % Len(a)) + 1]])
    /\ UNCHANGED <<api_keys, current_key_index, failed_keys, retry_count, marks, caller>>

\* line 48, return key, and line 129: if not api_key: break
ThreadAdvance(t) ==
    /\ thread[t].pc = "l48"
    /\ current_key_index' = (current_key_index + 1) % Len(thread[t].available_keys)
    /\ IF Falsy(thread[t].api_key)
       THEN Set(t, [thread[t] EXCEPT !.pc = "done", !.result = None])
       ELSE Set(t, [thread[t] EXCEPT !.pc = "try"])
    /\ UNCHANGED <<api_keys, failed_keys, retry_count, marks, caller>>

\* lines 134-139 pass: return response.text
ThreadSuccess(t) ==
    /\ thread[t].pc = "try"
    /\ Set(t, [thread[t] EXCEPT !.pc = "done", !.result = "text"])
    /\ UNCHANGED <<api_keys, current_key_index, failed_keys, retry_count, marks, caller>>

\* lines 134-139 raise: the except clause calls mark_key_failed(api_key)
\* (failures stop once the key's counter, the number of stores for it on
\* record, or a value about to be stored stands at MaxCount)
ThreadFailure(t) ==
    /\ thread[t].pc = "try"
    /\ Get(marks, thread[t].api_key, 0) < MaxCount
    /\ Get(retry_count, thread[t].api_key, 0) < MaxCount
    /\ \A u \in Threads : thread[u].count < MaxCount
    /\ Set(t, [thread[t] EXCEPT !.pc = "l59"])
    /\ UNCHANGED <<api_keys, current_key_index, failed_keys, retry_count, marks, caller>>

\* line 59, right side: self.retry_count.get(api_key, 0) + 1
ThreadLoadCount(t) ==
    /\ thread[t].pc = "l59"
    /\ Set(t, [thread[t] EXCEPT !.pc = "l59s",
                  !.count = Get(retry_count, thread[t].api_key, 0) + 1])
    /\ UNCHANGED <<api_keys, current_key_index, failed_keys, retry_count, marks, caller>>

\* line 59, store: self.retry_count[api_key] = ...
ThreadStoreCount(t) ==
    /\ thread[t].pc = "l59s"
    /\ retry_count' = Put(retry_count, thread[t].api_key, thread[t].count)
    /\ marks' = Put(marks, thread[t].api_key, Get(marks, thread[t].api_key, 0) + 1)
    /\ Set(t, [thread[t] EXCEPT !.pc = "l61"])
    /\ UNCHANGED <<api_keys, current_key_index, failed_keys, caller>>

\* lines 61-62: if self.retry_count[api_key] >= self.max_retries: add; a
\* KeyError if the entry is gone. Then the next iteration, or return None.
ThreadQuarantine(t) ==
    /\ thread[t].pc = "l61"
    /\ LET k == thread[t].api_key
           n == thread[t].attempt + 1
           f == [thread[t] EXCEPT !.count = 0]
       IN  IF k \notin DOMAIN retry_count
           THEN /\ Set(t, [f EXCEPT !.pc = "done", !.result = "KeyError"])
                /\ UNCHANGED failed_keys
           ELSE /\ failed_keys' = IF retry_count[k] >= max_retries
                                  THEN failed_keys \cup {k} ELSE failed_keys
                /\ IF n < thread[t].max_attempts
                   THEN Set(t, [f EXCEPT !.pc = "l35", !.attempt = n])
                   ELSE Set(t, [f EXCEPT !.pc = "done", !.attempt = n,
                                         !.result = None])
    /\ UNCHANGED <<api_keys, current_key_index, retry_count, marks, caller>>

\* The thread drops what its call returned and goes on.
ThreadContinue(t) ==
    /\ thread[t].pc = "done"
    /\ Set(t, IdleThread)
    /\ UNCHANGED <<api_keys, current_key_index, failed_keys, retry_count, marks, caller>>

NextThreads ==
    \E t \in Threads :
        \/ ThreadGenerate(t)
        \/ ThreadAvailable(t)
        \/ ThreadReset(t)
        \/ ThreadSelect(t)
        \/ ThreadAdvance(t)
        \/ ThreadSuccess(t)
        \/ ThreadFailure(t)
        \/ ThreadLoadCount(t)
        \/ ThreadStoreCount(t)
        \/ ThreadQuarantine(t)
        \/ ThreadContinue(t)

\* A manager of one or two distinct non-empty keys shared by the threads.
InitThreads == Init /\ Distinct(api_keys) /\ "" \notin KeySet /\ Len(api_keys) <= 2

SpecThreads == InitThreads /\ [][NextThreads]_vars

\* ------------------------------------------------------------- the agents
\* src/agents_enhanced.py. An agent runs up to its next process_with_gemini
\* call in one step; the call is generate_content_with_fallback on the
\* manager, with the default max_attempts; the agent goes on from the answer.
MainHeading == "## Conteúdo Principal"
TipsHeading == "## Bizus e Dicas Importantes"
Callout == "> [!TIP] a"
QuestionsHeading == "## Questões de Revisão"
QuestionHeading == "### Questão"
QuestionManual == "Questão (regex)"
Rule == "---"
DiagramHeading == "## Diagrama Ilustrativo"
Mermaid == "mermaid"
NoDiagram == "Nenhum diagrama necessário"

\* What the remote model answers, call by call: lines of tips (bare, carrying
\* the prefix already, blank), a rewritten text, a diagram or the refusal of
\* one, a revised note with or without a header block of its own.
TipLines == {"a", Tip, Blank}
Answers(at) ==
    CASE at = "ai_bizus" -> UNION {[1..n -> TipLines] : n \in 1..2}
      [] at = "diagram_suggestion" -> {<<Mermaid>>, <<NoDiagram>>}
      [] at = "latex_improved" -> {<<Revised, Formula>>}
      [] at = "final_review" -> {<<Revised>>, <<Metadata, Revised>>,
                                 <<Blank, Metadata, Revised>>}
      [] OTHER -> {<<Revised>>}
Purposes == {"ai_bizus", "ai_structured", "formatted_question",
             "diagram_suggestion", "latex_improved", "final_review"}

\* Faulty variant: whatever generate returned is returned.
process_with_gemini_NoCheck == "return"

\* EnhancedAgent.process_with_gemini, once generate has returned:
\* if not response: raise RuntimeError
process_with_gemini == IF Falsy(result.val) THEN "RuntimeError" ELSE "return"

\* The agent calls process_with_gemini: generate_content_with_fallback(prompt)
ProcessWithGemini ==
    /\ pc = "idle"
    /\ pipe.at \in Purposes
    /\ Begin(Len(api_keys))

\* generate_content_with_fallback has returned to the agent waiting at `at`.
Answered(at) == pc = "done" /\ result.op = "generate" /\ pipe.at = at

\* The agent takes the answer; Tally notes whether attempts of the call
\* succeeded and whether attempts failed.
Taken ==
    /\ pc' = "idle"
    /\ attempt' = 0
    /\ max_attempts' = 0
    /\ api_key' = None
    /\ result' = NoResult
    /\ status' = NoStatus
    /\ call' = NoCall
    /\ UNCHANGED <<api_keys, current_key_index, failed_keys, retry_count, hist,
                   thread, marks>>
Tally(p) == [p EXCEPT !.remote_ok = @ \/ call.oks > 0,
                      !.remote_failed = @ \/ call.fails > 0]
Quiet == UNCHANGED <<api_keys, current_key_index, failed_keys, retry_count,
                     pc, attempt, max_attempts, api_key, result, status, call,
                     hist, thread, marks>>

Ask(p, at) == [p EXCEPT !.at = at, !.asks = Append(@, at)]
Starts(p, stage) == [p EXCEPT !.started = Append(@, stage)]
Hands(p, stage, next) ==
    [p EXCEPT !.done = Append(@, stage), !.stage = next, !.at = "start"]

\* Faulty variant: the except clause returns what there is instead of raising.
except_raise_Swallow(p, e) ==
    [p EXCEPT !.stage = "returned", !.at = "", !.final_note = <<>>]

\* An exception leaves the agent; lines 341-344: report it and raise it again.
except_raise(p, e) == [p EXCEPT !.stage = "raised", !.at = "", !.error = e]

\* ---- TranscriberExtractorAgent.process
\* lines 40-43: a matched section goes unless it holds 'Questão' or 'Gabarito'
remove_boilerplate(content) == Without(content, {Boilerplate})

\* line 60-61: "Bizu: " + line.strip()
Prefixed(line) == IF line = Tip THEN "Bizu: Bizu: a" ELSE Tip

\* lines 58-61: every non-blank line that is not in bizus is appended, prefixed
RECURSIVE add_ai_bizus(_, _)
add_ai_bizus(bizus, lines) ==
    IF lines = <<>> THEN bizus
    ELSE LET line == Head(lines)
         IN  add_ai_bizus(IF line # Blank /\ ~Contains(bizus, line)
                          THEN Append(bizus, Prefixed(line)) ELSE bizus,
                          Tail(lines))

\* Faulty variant: the model is asked whatever the length.
needs_ai_bizus_Always(processed_content) == TRUE

\* line 55
needs_ai_bizus(processed_content) == TextLen(processed_content) > ai_bizus_len

\* lines 65-78: the questions leave the text, what is left is stripped
extracted(processed_content, bizus) ==
    [main_content |-> Strip(Without(processed_content, Questions)),
     bizus |-> bizus,
     questions |-> SelectSeq(processed_content, LAMBDA x : x \in Questions)]

\* lines 22-57, up to the call of the model if there is one
ExtractorStart ==
    /\ pipe.stage = "Extractor"
    /\ pipe.at = "start"
    /\ LET p == Starts(pipe, "Extractor")
           cleaned == remove_boilerplate(pipe.raw_content)
           bizus == SelectSeq(cleaned, LAMBDA x : x = Tip)
           processed_content == Without(cleaned, {Tip})
       IN  pipe' =
             IF pipe.raw_content = NotText THEN except_raise(p, "TypeError")
             ELSE IF needs_ai_bizus(processed_content)
             THEN Ask([p EXCEPT !.processed_content = processed_content,
                                !.bizus = bizus], "ai_bizus")
             ELSE Hands([p EXCEPT !.extracted_data =
                                      extracted(processed_content, bizus)],
                        "Extractor", "Structurer")
    /\ Quiet

\* lines 57-78, from the answer of the model on
ExtractorAnswer ==
    /\ Answered("ai_bizus")
    /\ \E r \in Answers("ai_bizus") :
          LET p == Tally(pipe)
              bizus == IF process_with_gemini = "return"
                       THEN add_ai_bizus(p.bizus, r) ELSE p.bizus
          IN  pipe' = Hands([p EXCEPT !.extracted_data =
                                          extracted(p.processed_content, bizus),
                                      !.processed_content = <<>>,
                                      !.bizus = <<>>],
                            "Extractor", "Structurer")
    /\ Taken

\* ---- StructurerVisualizerAgent.process
\* lines 124-128: one callout per bizu
callouts(bizus) ==
    IF bizus = <<>> THEN <<>>
    ELSE <<TipsHeading>> \o [i \in 1..Len(bizus) |-> Callout]

\* after the main content: the callouts, then the first question if there is
\* one, else the diagram
after_main(p, structured_content) ==
    LET sc == structured_content \o callouts(p.extracted_data.bizus)
    IN  IF p.extracted_data.questions # <<>>
        THEN Ask([p EXCEPT !.structured_content = sc \o <<QuestionsHeading>>,
                           !.q = 1], "formatted_question")
        ELSE Ask([p EXCEPT !.structured_content = sc], "diagram_suggestion")

\* lines 95-122, up to the first call of the model
StructurerStart ==
    /\ pipe.stage = "Structurer"
    /\ pipe.at = "start"
    /\ LET p == Starts(pipe, "Structurer")
           main_content == pipe.extracted_data.main_content
       IN  pipe' =
             IF main_content = <<>> THEN after_main(p, <<Title>>)
             ELSE IF TextLen(main_content) > ai_structured_len
             THEN Ask([p EXCEPT !.structured_content = <<Title, MainHeading>>],
                      "ai_structured")
             ELSE after_main(p, <<Title, MainHeading>> \o main_content)
    /\ Quiet

\* lines 117-120: the structured text, or the original if the call failed
StructurerMain ==
    /\ Answered("ai_structured")
    /\ \E r \in Answers("ai_structured") :
          LET p == Tally(pipe)
          IN  pipe' = after_main(p, p.structured_content \o
                                 (IF process_with_gemini = "return" THEN r
                                  ELSE p.extracted_data.main_content))
    /\ Taken

\* Faulty variant: the fallback never splits the question.
manual_question_Plain(question_text) == <<question_text>>

\* lines 147-168: the question split by the regular expression of line 147,
\* which asks for an 'Alternativa X)'; the question as it is when that
\* expression does not match
manual_question(question_text) ==
    IF question_text = Question THEN <<QuestionManual>> ELSE <<question_text>>

\* lines 132-168: question q as the model formatted it, or as the fallback
\* writes it; then the next question, or the diagram
StructurerQuestion ==
    /\ Answered("formatted_question")
    /\ \E r \in Answers("formatted_question") :
          LET p == Tally(pipe)
              sc == p.structured_content \o <<QuestionHeading>> \o
                    (IF process_with_gemini = "return" THEN r
                     ELSE manual_question(p.extracted_data.questions[p.q]))
                    \o <<Rule>>
          IN  pipe' =
                IF p.q < Len(p.extracted_data.questions)
                THEN Ask([p EXCEPT !.structured_content = sc, !.q = @ + 1],
                         "formatted_question")
                ELSE Ask([p EXCEPT !.structured_content = sc, !.q = 0],
                         "diagram_suggestion")
    /\ Taken

\* lines 171-189
StructurerDiagram ==
    /\ Answered("diagram_suggestion")
    /\ \E r \in Answers("diagram_suggestion") :
          LET p == Tally(pipe)
              sc == IF process_with_gemini = "return" /\ Contains(r, Mermaid)
                    THEN p.structured_content \o <<DiagramHeading>> \o r
                    ELSE p.structured_content
          IN  pipe' = Hands([p EXCEPT !.structured_data =
                                [structured_content |-> sc,
                                 has_math |-> HasMath(p.extracted_data.main_content)],
                                      !.structured_content = <<>>],
                            "Structurer", "LatexExpert")
    /\ Taken

\* ---- LatexExpertAgent.process
\* lines 206-209 and 231-234, up to the call of the model if has_math
LatexStart ==
    /\ pipe.stage = "LatexExpert"
    /\ pipe.at = "start"
    /\ LET p == Starts(pipe, "LatexExpert")
       IN  pipe' =
             IF p.structured_data.has_math THEN Ask(p, "latex_improved")
             ELSE Hands([p EXCEPT !.latex_data =
                            [content |-> p.structured_data.structured_content,
                             latex_processed |-> FALSE]],
                        "LatexExpert", "ObsidianFormatter")
    /\ Quiet

\* lines 222-234: the improved text, or the text as it is (the two re.sub
\* calls of the fallback put back what they match); then the notice
LatexAnswer ==
    /\ Answered("latex_improved")
    /\ \E r \in Answers("latex_improved") :
          LET p == Tally(pipe)
              content == (IF process_with_gemini = "return" THEN r
                          ELSE p.structured_data.structured_content) \o <<Note>>
          IN  pipe' = Hands([p EXCEPT !.latex_data =
                                [content |-> content, latex_processed |-> TRUE]],
                            "LatexExpert", "ObsidianFormatter")
    /\ Taken

\* ---- ObsidianFormatterAgent.process
\* lines 251-266
FormatterStart ==
    /\ pipe.stage = "ObsidianFormatter"
    /\ pipe.at = "start"
    /\ pipe' = Ask(Starts(pipe, "ObsidianFormatter"), "final_review")
    /\ Quiet

\* lines 268-276: the review, or the content with the tag block if need be
reviewed(latex_data, response) ==
    IF process_with_gemini = "return" THEN response
    ELSE IF latex_data.latex_processed /\ ~HasTags(latex_data.content)
    THEN latex_data.content \o <<TagBlock>>
    ELSE latex_data.content

\* lines 268-283. The module binds the name time only when it runs as a
\* script (line 348): line 280 raises NameError otherwise.
FormatterAnswer ==
    /\ Answered("final_review")
    /\ \E r \in Answers("final_review") :
          LET p == Tally(pipe)
              final_content == reviewed(p.latex_data, r)
              returns(note) == [Hands(p, "ObsidianFormatter", "returned")
                                  EXCEPT !.at = "", !.final_note = note,
                                         !.runs = @ + 1]
          IN  pipe' =
                IF StartsWithDashes(final_content) THEN returns(final_content)
                ELSE IF p.time THEN returns(<<Metadata>> \o final_content)
                ELSE except_raise(p, "NameError")
    /\ Taken

\* formatter.process called again, on the note it returned
FormatAgain ==
    /\ pipe.mode = "format"
    /\ pipe.stage = "returned"
    /\ pipe.runs < 2
    /\ pipe' = [pipe EXCEPT !.stage = "ObsidianFormatter", !.at = "start",
                            !.latex_data.content = pipe.final_note]
    /\ Quiet

\* process_content_with_enhanced_agents(raw_content, api_keys) has built the
\* manager and the agents (lines 306-316) and is about to run the first one.
RunInputs ==
    {[NoPipe EXCEPT !.mode = "run", !.stage = "Extractor", !.at = "start",
                    !.time = t, !.raw_content = raw] :
        t \in BOOLEAN, raw \in RawTexts \cup {NotText}}

\* formatter.process(latex_data) called on a note that begins with the header
\* block.
HeaderedTexts ==
    UNION {{<<Metadata>> \o body : body \in [1..n -> {Paragraph, Formula}]} :
              n \in 0..(MaxDoc - 1)}
FormatInputs ==
    {[NoPipe EXCEPT !.mode = "format", !.stage = "ObsidianFormatter",
                    !.at = "start", !.time = t,
                    !.latex_data = [content |-> c, latex_processed |-> b]] :
        t \in BOOLEAN, c \in HeaderedTexts, b \in BOOLEAN}

\* The manager of the agents holds fewer than MaxKeys keys.
InitAgents ==
    /\ ManagerInit
    /\ Len(api_keys) < MaxKeys
    /\ pipe \in RunInputs \cup FormatInputs

NextAgents ==
    \/ ProcessWithGemini
    \/ GenNext(FALSE)
    \/ GenNoKey(FALSE)
    \/ GenExhausted
    \/ \E text \in Texts : GenSuccess(text)
    \/ \E stage \in Stages : GenFailure(stage)
    \/ ExtractorStart
    \/ ExtractorAnswer
    \/ StructurerStart
    \/ StructurerMain
    \/ StructurerQuestion
    \/ StructurerDiagram
    \/ LatexStart
    \/ LatexAnswer
    \/ FormatterStart
    \/ FormatterAnswer
    \/ FormatAgain

SpecAgents == InitAgents /\ [][NextAgents]_vars

\* ------------------------------------------------------------- properties
\* A step that is a get_next_key call, and the key the call returned.
SelectStep == \E t \in BOOLEAN : CallGetNextKey(t) \/ GenNext(t) \/ GenNoKey(t)
Selected == IF pc' = "done" /\ result'.op = "get_next_key" THEN result'.val ELSE api_key'
AllQuarantined == AvailableKeys(api_keys, failed_keys) = <<>>

C2_Rotation ==
    LET k == Len(api_keys)
        n == Len(hist)
    IN  /\ \A i \in 1..n : hist[i].key = api_keys[hist[i].pos + 1]
        /\ \A i \in 1..n : i + k - 1 <= n =>
               {hist[j].pos : j \in i..(i + k - 1)} = 0..(k - 1)
        /\ \A i \in 1..n : i + k <= n => hist[i + k].pos = hist[i].pos

\* MaxKeys + 1 selections on a pool of MaxKeys keys are on record.
C2_Witness ==
    /\ Len(api_keys) = MaxKeys
    /\ Len(hist) = MaxKeys + 1
    /\ hist[1].pos = hist[MaxKeys + 1].pos

\* C3: a generate call has at most one successful attempt, and once an
\* attempt succeeded the call has returned that attempt's text; it made one
\* get_next_key call and one remote attempt per iteration up to the successful
\* one and one mark_key_failed call per failed attempt, none after it.
C3_ShortCircuit ==
    /\ call.oks <= 1
    /\ call.oks = 1 =>
          /\ pc = "done"
          /\ result = [op |-> "generate", kind |-> "return", val |-> call.text]
          /\ call.nexts = call.fails + 1
          /\ call.remotes = call.fails + 1
          /\ call.marks = call.fails
          /\ attempt = call.fails

\* A generate call returned the text of an attempt that followed failed ones.
C3_Witness ==
    /\ pc = "done"
    /\ result.op = "generate"
    /\ call.oks = 1
    /\ call.fails >= 2
    /\ result.val = "txt"

\* A generate call with max_attempts = len(api_keys) has returned and none of
\* its remote attempts succeeded.
AllFailedDone ==
    /\ pc = "done"
    /\ result.op = "generate"
    /\ call.oks = 0
    /\ max_attempts = Len(api_keys)

\* C4, on a pool of pairwise distinct non-empty keys none of which is
\* quarantined when the call starts: such a call returned None after exactly
\* len(api_keys) remote attempts, and the counter of every key is above its
\* value before the call.
C4_Exhaustion ==
    (AllFailedDone /\ Distinct(api_keys) /\ "" \notin KeySet /\ call.failed0 = {}) =>
        /\ result.val = None
        /\ call.remotes = Len(api_keys)
        /\ \A c \in KeySet : Get(retry_count, c, 0) > Get(call.before, c, 0)

\* A step that is a mark_key_failed(c) call.
MarkStep(c) ==
    \/ CallMarkKeyFailed(c)
    \/ api_key = c /\ \E stage \in Stages : GenFailure(stage)

\* C5: mark_key_failed(c) adds exactly one to c's counter and touches no other
\* key; after it c is quarantined exactly if it was before or its counter has
\* reached max_retries; a quarantined key stays quarantined, and is returned
\* by no get_next_key call, except by a call that finds every key quarantined
\* and resets the pool.
C5_Quarantine ==
    [][\A c \in KeyUniverse :
          /\ MarkStep(c) =>
                /\ Get(retry_count', c, 0) = Get(retry_count, c, 0) + 1
                /\ c \in failed_keys' <=>
                      (c \in failed_keys \/ Get(retry_count', c, 0) >= max_retries)
                /\ c \notin failed_keys => Get(retry_count, c, 0) < max_retries
                /\ \A d \in KeyUniverse \ {c} :
                      /\ Get(retry_count', d, 0) = Get(retry_count, d, 0)
                      /\ d \in failed_keys' <=> d \in failed_keys
          /\ c \in failed_keys =>
                /\ (SelectStep /\ Selected = c) => AllQuarantined
                /\ c \notin failed_keys' => (SelectStep /\ AllQuarantined)]_vars

\* A direct get_next_key call has returned a key while another key, whose
\* counter stands at max_retries, is quarantined.
C5_Witness ==
    /\ pc = "done"
    /\ result.op = "get_next_key"
    /\ result.val \notin failed_keys
    /\ \E c \in failed_keys : retry_count[c] = max_retries

\* C6: every key in failed_keys has a counter of at least max_retries.
C6_QuarantinedCounted ==
    \A c \in failed_keys : Get(retry_count, c, 0) >= max_retries

\* A quarantined key with a counter above max_retries next to a key that has
\* failed and is not quarantined.
C6_Witness ==
    /\ \E c \in failed_keys : retry_count[c] > max_retries
    /\ \E d \in KeySet \ failed_keys : Get(retry_count, d, 0) > 0

Max(a, b) == IF a >= b THEN a ELSE b

\* C7, on a pool of pairwise distinct keys:
\* 0 <= current_key_index < max(1, number of non-quarantined entries).
C7_CursorInRange ==
    Distinct(api_keys) =>
        /\ 0 <= current_key_index
        /\ current_key_index < Max(1, Len(AvailableKeys(api_keys, failed_keys)))

\* C8, on a pool of pairwise distinct keys: between two recorded selections of
\* the same key, every other key that was not quarantined at any selection
\* after the first up to the second has been selected.
C8_Fair ==
    \A i, j \in 1..Len(hist) :
        (Distinct(api_keys) /\ i < j /\ hist[i].key = hist[j].key) =>
            \A c \in KeySet \ {hist[i].key} :
                (\A m \in (i + 1)..j : c \notin hist[m].failed) =>
                    \E m \in (i + 1)..(j - 1) : hist[m].key = c

\* C9: get_status changes no field of the pool and reports the fields as they
\* are; writing into the retry_counts mapping it returned changes no field of
\* the pool either.
C9_StatusPure ==
    [][/\ CallGetStatus =>
             /\ UNCHANGED <<api_keys, current_key_index, failed_keys, retry_count>>
             /\ status'.current_key_index = current_key_index
             /\ status'.retry_counts = retry_count
             /\ status'.failed_keys = Cardinality(failed_keys)
             /\ status'.total_keys = Len(api_keys)
       /\ \A k \in KeyUniverse : CallerMutates(k) =>
             UNCHANGED <<api_keys, current_key_index, failed_keys, retry_count>>]_vars

\* The caller has changed the mapping of a status taken from a pool with a
\* quarantined key.
C9_Witness ==
    /\ pc = "done"
    /\ result.op = "get_status"
    /\ failed_keys # {}
    /\ status.retry_counts # retry_count

\* C10: no call ends by raising; generate returns a text or None; every failed
\* attempt of a generate call is followed by mark_key_failed on the key it
\* used and by the next iteration of the loop.
C10_NoPropagation ==
    /\ [](/\ result.kind = "return"
          /\ result.op = "generate" => result.val \in Texts \cup {None}
          /\ call.marks = call.fails)
    /\ [][\A stage \in Stages : GenFailure(stage) =>
             /\ Get(retry_count', api_key, 0) = Get(retry_count, api_key, 0) + 1
             /\ pc' = "next"
             /\ attempt' = attempt + 1]_vars

\* A generate call has returned None after two failed attempts.
C10_Witness ==
    /\ pc = "done"
    /\ result = [op |-> "generate", kind |-> "return", val |-> None]
    /\ call.fails >= 2
    /\ call.marks = call.fails

\* C15, on a pool of pairwise distinct non-empty keys: a generate call with
\* max_attempts = len(api_keys) returns None only if every key that was not
\* quarantined when the call started has failed an attempt of this call (a key
\* whose attempts always succeed makes the call return a text).
C15_HealthySucceeds ==
    (AllFailedDone /\ Distinct(api_keys) /\ "" \notin KeySet) =>
        \A h \in KeySet \ call.failed0 : h \in call.bad

\* C16: retry_count and failed_keys change only in a mark_key_failed call or in
\* a get_next_key call that finds every key quarantined; a successful attempt
\* changes neither; a get_next_key call that finds a key available changes
\* only current_key_index; a step that lowers a counter or takes a key out of
\* failed_keys is a get_next_key call made with every key quarantined, and it
\* leaves both containers empty.
C16_Frame ==
    [][/\ (retry_count' # retry_count \/ failed_keys' # failed_keys) =>
             \/ \E c \in KeyUniverse : MarkStep(c)
             \/ SelectStep /\ AllQuarantined
       /\ (\E text \in Texts : GenSuccess(text)) =>
             UNCHANGED <<api_keys, current_key_index, failed_keys, retry_count>>
       /\ (SelectStep /\ ~AllQuarantined) =>
             UNCHANGED <<api_keys, failed_keys, retry_count>>
       /\ (\/ \E c \in KeyUniverse : Get(retry_count', c, 0) < Get(retry_count, c, 0)
           \/ ~(failed_keys \subseteq failed_keys')) =>
             /\ SelectStep
             /\ AllQuarantined
             /\ failed_keys' = {}
             /\ retry_count' = EmptyDict]_vars

\* A generate call that started with counters above 0 has reset the pool and
\* then succeeded: the counters are still all 0.
C16_Witness ==
    /\ pc = "done"
    /\ result.op = "generate"
    /\ call.oks = 1
    /\ call.before # EmptyDict
    /\ call.fails >= 1
    /\ retry_count = EmptyDict
    /\ failed_keys = {}

\* A step that selects the key of an attempt following a failed attempt of the
\* same generate call; api_key still holds the key that failed.
RetryStep == pc = "next" /\ attempt >= 1 /\ \E t \in BOOLEAN : GenNext(t)

\* The keys that were not quarantined when the key that just failed was
\* selected.
AvailableAtSelection == KeySet \ (failed_keys \ {api_key})

Progress == 2 * attempt + (IF pc = "try" THEN 1 ELSE 0)

\* C18: a generate call makes at most max_attempts remote attempts and at most
\* max_attempts get_next_key calls; every step of the call either ends it or
\* moves it forward in the at most max_attempts iterations of its loop, a
\* step that resets the pool included, and max_attempts does not change.
C18_Bounded ==
    /\ [](/\ call.remotes <= max_attempts
          /\ call.nexts <= max_attempts
          /\ attempt <= max_attempts
          /\ Progress <= 2 * max_attempts)
    /\ [][(pc = "next" \/ pc = "try") =>
             (\/ pc' = "done"
              \/ /\ pc' \in {"next", "try"}
                 /\ Progress' = Progress + 1
                 /\ max_attempts' = max_attempts)]_vars

\* A generate call in which every attempt failed and the pool was reset has
\* returned after max_attempts = MaxKeys attempts.
C18_Witness ==
    /\ pc = "done"
    /\ result = [op |-> "generate", kind |-> "return", val |-> None]
    /\ max_attempts = MaxKeys
    /\ call.remotes = max_attempts
    /\ call.nexts = max_attempts
    /\ \E c \in KeySet : Get(retry_count, c, 0) < Get(call.before, c, 0)

\* The entries of api_keys whose counter, or whose membership of failed_keys,
\* is changed by the step.
SlotsTouched ==
    {j \in 1..Len(api_keys) :
        \/ Get(retry_count', api_keys[j], 0) # Get(retry_count, api_keys[j], 0)
        \/ (api_keys[j] \in failed_keys') # (api_keys[j] \in failed_keys)}

\* C19: a mark_key_failed call changes the counter and the quarantine of one
\* entry of api_keys only, also when another entry holds the same string, and
\* get_status reports as available_keys the number of entries get_next_key
\* can select.
C19_DistinctSlots ==
    [][/\ (\E c \in KeyUniverse : MarkStep(c)) => Cardinality(SlotsTouched) = 1
       /\ CallGetStatus =>
             status'.available_keys = Len(AvailableKeys(api_keys, failed_keys))]_vars

\* No thread is between the first and the last statement of mark_key_failed.
NoMarkUnderWay == \A t \in Threads : thread[t].pc \notin {"l59", "l59s", "l61"}

\* C20, with generate running in two threads on one manager of pairwise
\* distinct keys: whenever no
\* mark_key_failed call is under way, the counter of every key equals the
\* number of mark_key_failed stores for it since retry_count was last cleared,
\* and a key is quarantined exactly if its counter has reached max_retries;
\* no call ends in an exception.
C20_NoLostIncrement ==
    Distinct(api_keys) =>
    /\ NoMarkUnderWay =>
          \A c \in KeyUniverse :
              /\ Get(retry_count, c, 0) = Get(marks, c, 0)
              /\ c \in failed_keys <=> Get(retry_count, c, 0) >= max_retries
    /\ \A t \in Threads : thread[t].result # "KeyError"

\* The four agents in the order of lines 320-333.
Order == <<"Extractor", "Structurer", "LatexExpert", "ObsidianFormatter">>
IsPrefix(s, t) == Len(s) <= Len(t) /\ SubSeq(t, 1, Len(s)) = s
Running == pipe.mode = "run"

\* C11: process_content_with_enhanced_agents starts the four agents in the
\* order Extractor, Structurer, LatexExpert, ObsidianFormatter, each at most
\* once and none before the one ahead of it has returned its record; when an
\* agent raises, no later agent is started, none is started again, the error
\* reaches the caller and no final text is returned.
C11_StagesInOrder ==
    /\ [](Running =>
            /\ IsPrefix(pipe.started, Order)
            /\ IsPrefix(pipe.done, pipe.started)
            /\ Len(pipe.started) <= Len(pipe.done) + 1
            /\ pipe.stage \in {"Structurer", "LatexExpert", "ObsidianFormatter"}
                  => pipe.done # <<>> /\ pipe.stage = Order[Len(pipe.done) + 1]
            /\ pipe.stage = "returned" => pipe.done = Order /\ pipe.error = "none"
            /\ pipe.stage = "raised" =>
                  /\ pipe.error # "none"
                  /\ pipe.final_note = <<>>
                  /\ Len(pipe.started) = Len(pipe.done) + 1)
    /\ [][(Running /\ pipe.stage = "raised") => pipe' = pipe]_vars
\* Reached: the first agent has raised and no other agent was started.
C11_Witness ==
    /\ Running
    /\ pipe.stage = "raised"
    /\ pipe.started = <<"Extractor">>
    /\ pipe.done = <<>>

\* The run is over; attempts of its remote calls failed and none succeeded.
Degraded ==
    /\ Running
    /\ pipe.stage \in {"returned", "raised"}
    /\ pipe.remote_failed
    /\ ~pipe.remote_ok

\* C12: a run on non-empty keys in which every remote call fails, on a text
\* that the Structurer flags as mathematical (and that holds no 'tags:' of
\* its own), does not raise: it returns a note that is not empty and holds the notice of line
\* 229 and the tag block of line 276.
C12_DegradedRunReturns ==
    (Degraded /\ "" \notin KeySet
              /\ pipe.structured_data.has_math
              /\ ~Contains(pipe.raw_content, TagLine)) =>
        /\ pipe.stage = "returned"
        /\ pipe.final_note # <<>>
        /\ Contains(pipe.final_note, Note)
        /\ Contains(pipe.final_note, TagBlock)

\* formatter.process is run on a text that begins with the header block, and
\* then on what it returned.
Formatting == pipe.mode = "format"

\* C13: ObsidianFormatterAgent.process, run on a text that begins with the
\* header block and run again on what it returned, returns a text with exactly
\* one header block.
C13_OneHeader ==
    (Formatting /\ pipe.stage = "returned") =>
        Count(pipe.final_note, Metadata) = 1

\* The Extractor has just returned its record for raw_content.
Extracted == Running /\ pipe.stage = "Structurer" /\ pipe.at = "start"
\* raw_content holds no line that bizu_pattern matches and no block that
\* question_pattern matches.
MarkerFree ==
    /\ ~Contains(pipe.raw_content, Tip)
    /\ \A x \in Questions : ~Contains(pipe.raw_content, x)

NoTwoEqual(list) ==
    \A i, j \in 1..Len(list) : list[i] = list[j] => i = j

\* C21: when the text left after the extraction is longer than 1000
\* characters, the remote call succeeded and the text held at most one tip
\* of its own, the bizus the Extractor returns hold no two equal entries.
C21_TipsDeduplicated ==
    (Extracted /\ pipe.asks = <<"ai_bizus">> /\ pipe.remote_ok
               /\ Count(pipe.raw_content, Tip) <= 1) =>
        NoTwoEqual(pipe.extracted_data.bizus)

\* The process_with_gemini calls of the Structurer so far, in the order made,
\* and the calls lines 105-178 make for the record of the Extractor.
StructurerAsks ==
    SelectSeq(pipe.asks, LAMBDA a : a \in {"ai_structured", "formatted_question",
                                           "diagram_suggestion"})
StructurerCalls ==
    (IF TextLen(pipe.extracted_data.main_content) > ai_structured_len
     THEN <<"ai_structured">> ELSE <<>>)
    \o [i \in 1..Len(pipe.extracted_data.questions) |-> "formatted_question"]
    \o <<"diagram_suggestion">>
\* The calls are made in that order and all of them are made; the Structurer
\* does not raise.
CallsInOrder ==
    (Running /\ pipe.done # <<>>) =>
        /\ IsPrefix(StructurerAsks, StructurerCalls)
        /\ Len(pipe.done) >= 2 => StructurerAsks = StructurerCalls
        /\ pipe.stage = "raised" => Len(pipe.done) >= 2
\* The Structurer goes on from the answer to the call for question q, and
\* what its step adds to structured_content.
QuestionStep == Running /\ Answered("formatted_question") /\ pipe' # pipe
SplitAdded ==
    Count(pipe'.structured_content, QuestionManual) =
        Count(pipe.structured_content, QuestionManual) + 1
PlainAdded ==
    Count(pipe'.structured_content, QuestionPlain) =
        Count(pipe.structured_content, QuestionPlain) + 1
GoesOn ==
    /\ pipe'.stage = "Structurer"
    /\ pipe'.at = (IF pipe.q < Len(pipe.extracted_data.questions)
                   THEN "formatted_question" ELSE "diagram_suggestion")
    /\ pipe'.q = (IF pipe.q < Len(pipe.extracted_data.questions)
                  THEN pipe.q + 1 ELSE 0)

\* C22: the Structurer calls the model for the main content exactly if it is
\* longer than 500 characters, then once per question in the order of the
\* questions, then once for the diagram; the split by the regular expression
\* is written for a question exactly if the call for it failed; no failed
\* call stops the later calls or makes the Structurer raise.
C22_SplitIffFailed ==
    /\ []CallsInOrder
    /\ [][QuestionStep =>
            /\ GoesOn
            /\ SplitAdded <=> process_with_gemini = "RuntimeError"]_vars

\* C22, amended: the same calls in the same order, none stopped by a failure;
\* the fallback formatting is written for a question exactly if the call for
\* it failed: the split by the regular expression if the question holds an
\* 'Alternativa X)', the text of the question as it is if it holds none.
C22_FallbackIffFailed ==
    /\ []CallsInOrder
    /\ [][QuestionStep =>
            LET question_text == pipe.extracted_data.questions[pipe.q]
                failed == process_with_gemini = "RuntimeError"
            IN  /\ GoesOn
                /\ SplitAdded <=> (failed /\ question_text = Question)
                /\ PlainAdded <=> (failed /\ question_text = QuestionPlain)]_vars
\* Reached: the Structurer has returned after the call for a long main
\* content, the call for a question, which failed, and the call for the
\* diagram; the question is there as the regular expression split it.
C22_Witness ==
    /\ Running
    /\ pipe.stage = "LatexExpert" /\ pipe.at = "start"
    /\ StructurerAsks = <<"ai_structured", "formatted_question", "diagram_suggestion">>
    /\ Contains(pipe.structured_data.structured_content, QuestionManual)
    /\ pipe.remote_ok /\ pipe.remote_failed

\* ObsidianFormatterAgent.process goes on from the answer to its review call.
ReviewStep == Answered("final_review") /\ pipe' # pipe

\* C23: ObsidianFormatterAgent.process always returns, and what it returns
\* begins with the header block; the tag block of line 276 is appended
\* exactly if the review call failed, latex_processed is set and the content
\* holds no 'tags:'.
C23_ReturnsHeadered ==
    [][ReviewStep =>
          /\ pipe'.stage = "returned"
          /\ StartsWithDashes(pipe'.final_note)
          /\ (Count(pipe'.final_note, TagBlock) =
                  Count(pipe.latex_data.content, TagBlock) + 1)
             <=> /\ process_with_gemini = "RuntimeError"
                 /\ pipe.latex_data.latex_processed
                 /\ ~HasTags(pipe.latex_data.content)]_vars

\* The attempt under way succeeds with an empty text; generate has returned
\* the empty text of a successful attempt to the agent.
EmptySuccess ==
    pc = "try" /\ pc' = "done" /\ result'.kind = "return" /\ result'.val = ""
EmptyAnswer ==
    /\ pc = "done" /\ result.op = "generate" /\ result.kind = "return"
    /\ result.val = "" /\ call.oks > 0
    /\ pipe.at \in Purposes
\* What the agent waiting at pipe.at writes when its call has failed.
FallbackTaken ==
    CASE pipe.at = "ai_bizus" -> pipe'.extracted_data.bizus = pipe.bizus
      [] pipe.at = "ai_structured" ->
            IsPrefix(pipe.structured_content \o pipe.extracted_data.main_content,
                     pipe'.structured_content)
      [] pipe.at = "formatted_question" ->
            pipe'.structured_content =
                pipe.structured_content \o <<QuestionHeading>> \o
                manual_question(pipe.extracted_data.questions[pipe.q]) \o <<Rule>>
      [] pipe.at = "diagram_suggestion" ->
            pipe'.structured_data.structured_content = pipe.structured_content
      [] pipe.at = "latex_improved" ->
            pipe'.latex_data.content =
                pipe.structured_data.structured_content \o <<Note>>
      [] pipe.at = "final_review" ->
            LET content == pipe.latex_data.content
                final_content ==
                    IF pipe.latex_data.latex_processed /\ ~HasTags(content)
                    THEN content \o <<TagBlock>> ELSE content
            IN  \/ pipe'.final_note \in {final_content, <<Metadata>> \o final_content}
                \/ pipe'.error = "NameError"

\* C24: when an attempt succeeds with an empty text, process_with_gemini
\* raises and the agent writes what it writes for a failed call, while the
\* manager is left as by a success: the attempt changes no counter, no
\* quarantine and no cursor, it is the last attempt of the call, and only the
\* failed attempts before it were marked.
C24_EmptyTextIsFailure ==
    /\ [](EmptyAnswer =>
            /\ process_with_gemini = "RuntimeError"
            /\ call.oks = 1
            /\ call.remotes = call.fails + 1
            /\ call.marks = call.fails)
    /\ [][EmptySuccess =>
            /\ UNCHANGED <<retry_count, failed_keys, current_key_index>>
            /\ call'.marks = call.marks]_vars
    /\ [][EmptyAnswer =>
            /\ pc' = "idle"
            /\ UNCHANGED <<retry_count, failed_keys, current_key_index>>
            /\ FallbackTaken]_vars
\* Reached: with two keys, the call for a question succeeded at once with an
\* empty text; the Structurer has written the question as for a failed call
\* and nothing is marked.
C24_Witness ==
    /\ Running /\ pc = "idle"
    /\ pipe.asks = <<"formatted_question", "diagram_suggestion">>
    /\ pipe.remote_ok /\ ~pipe.remote_failed
    /\ Contains(pipe.structured_content, QuestionManual)
    /\ Cardinality(KeySet) = 2 /\ "" \notin KeySet
    /\ retry_count = EmptyDict /\ failed_keys = {}

====
